---- MODULE Spec2Model ----
(***************************************************************************)
(* One reconciliation pass of PorkBunDDNS (src/updater.py) together with   *)
(* the two service clients it drives (src/porkbunddns/porkbun.py and       *)
(* src/porkbunddns/ipify.py).                                              *)
(*                                                                         *)
(* Strings that the code converts (the TTL on the wire) are sequences of   *)
(* one-character strings, so that str() and int() are computed and not     *)
(* assumed.                                                                *)
(***************************************************************************)
EXTENDS Integers, Sequences, FiniteSets, TLC

VARIABLES
    args,       \* argparse namespace: domain, ttl
    world,      \* what the two services will answer during this pass
    provider,   \* the A records the DNS provider currently holds
    task,       \* the two futures submitted to the ThreadPoolExecutor
    pc,         \* position of the main thread in updater.py
    record,     \* updater.py `record` (result of record_task)
    current,    \* updater.py `current` (result of current_task)
    exc,        \* exception propagating out of the module body ("" if none)
    exit_code,  \* process exit status (-1 while running)
    sent,       \* HTTP requests issued so far, per endpoint
    editReply,  \* reply received for the edit request
    rt          \* TTL serialise/parse round trip (used by TtlSpec only)

vars == <<args, world, provider, task, pc, record, current, exc, exit_code,
          sent, editReply, rt>>

passVars == <<args, world, provider, task, pc, record, current, exc,
              exit_code, sent, editReply>>

-----------------------------------------------------------------------------
(* Bounds of the model *)

\* largest number of A records the provider may return for the domain
MaxRecords == 2

\* TTLs of the round trip range over -MaxTtl .. MaxTtl
MaxTtl == 650

(* Program constants *)

\* argparse default of --ttl
DefaultTtl == 600

Domains == {"example.com", "home.example.org"}

IPs == {"1.2.3.4", "5.6.7.8"}

\* values --ttl takes in the model (type=int)
ArgTtls == {DefaultTtl, 300}

\* TTL strings the provider may hold: two decimal strings and a malformed one
ProviderTtls == { <<"6", "0", "0">>, <<"3", "0", "0">>, <<"x">> }

TtlRange == (0 - MaxTtl) .. MaxTtl

-----------------------------------------------------------------------------
(* Python built-ins used on the TTL *)

DigitChars == <<"0", "1", "2", "3", "4", "5", "6", "7", "8", "9">>

IsDigit(c) == \E i \in 1..10 : DigitChars[i] = c

DigitVal(c) == (CHOOSE i \in 1..10 : DigitChars[i] = c) - 1

RECURSIVE NatDigits(_)
NatDigits(n) ==
    IF n < 10 THEN <<DigitChars[n + 1]>>
    ELSE NatDigits(n \div 10) \o <<DigitChars[(n % 10) + 1]>>

\* a plausible slip: the sign is lost when the TTL is put on the wire
pyStrUnsigned(n) == NatDigits(IF n < 0 THEN 0 - n ELSE n)

\* str(n) for an int n
pyStr(n) == IF n < 0 THEN <<"-">> \o NatDigits(0 - n) ELSE NatDigits(n)

RECURSIVE LStrip(_)
LStrip(s) == IF s # <<>> /\ Head(s) = " " THEN LStrip(Tail(s)) ELSE s

RECURSIVE RStrip(_)
RStrip(s) ==
    IF s # <<>> /\ s[Len(s)] = " " THEN RStrip(SubSeq(s, 1, Len(s) - 1)) ELSE s

\* digits, single underscores allowed between digits (PEP 515)
WellFormedDigits(s) ==
    /\ s # <<>>
    /\ IsDigit(s[1])
    /\ IsDigit(s[Len(s)])
    /\ \A i \in 1..Len(s) : IsDigit(s[i]) \/ s[i] = "_"
    /\ \A i \in 1..(Len(s) - 1) : ~(s[i] = "_" /\ s[i + 1] = "_")

RECURSIVE DigitsValue(_, _)
DigitsValue(s, acc) ==
    IF s = <<>> THEN acc
    ELSE IF Head(s) = "_" THEN DigitsValue(Tail(s), acc)
    ELSE DigitsValue(Tail(s), acc * 10 + DigitVal(Head(s)))

\* int(s) for a str s: [ok, val]; ok = FALSE stands for ValueError
pyInt(s) ==
    LET t    == RStrip(LStrip(s))
        neg  == t # <<>> /\ Head(t) = "-"
        body == IF t # <<>> /\ Head(t) \in {"+", "-"} THEN Tail(t) ELSE t
    IN  IF WellFormedDigits(body)
        THEN [ok |-> TRUE,
              val |-> IF neg THEN 0 - DigitsValue(body, 0)
                      ELSE DigitsValue(body, 0)]
        ELSE [ok |-> FALSE, val |-> 0]

-----------------------------------------------------------------------------
(* HTTP replies *)

NoBody == [status |-> "", records |-> <<>>, ip |-> "", has_ip |-> FALSE]

TimeoutReply == [kind |-> "timeout", status_code |-> 0, body |-> NoBody]

HttpReply(code, body) ==
    [kind |-> "response", status_code |-> code, body |-> body]

\* requests.Response.raise_for_status: TRUE when HTTPError is raised
raise_for_status(reply) ==
    reply.status_code >= 400 /\ reply.status_code < 600

-----------------------------------------------------------------------------
(* porkbun.py *)

DNSARecord(content, ttl) ==
    [name |-> "", type |-> "A", content |-> content, ttl |-> ttl]

\* the body of the validator function check_records_length
check_records_length(v) == Len(v) = 1

\* classmethod() is applied on top of the pydantic.validator() proxy, so the
\* class attribute is a classmethod object and pydantic does not collect it
RecordsValidatorCollected == FALSE

\* DNSARecordResponseModel.model_validate_json: TRUE when the body validates
DNSARecordResponseModel(body) ==
    /\ body.status = "SUCCESS"
    /\ \A i \in 1..Len(body.records) : body.records[i].type = "A"
    /\ (RecordsValidatorCollected => check_records_length(body.records))

Failure(e) == [ok |-> FALSE, ip |-> "", ttl |-> 0, error |-> e]

ARecord(ip, ttl) == [ok |-> TRUE, ip |-> ip, ttl |-> ttl, error |-> ""]

\* PorkBun.get_a_record, from the reply to its POST
get_a_record(reply) ==
    IF reply.kind = "timeout" THEN Failure("Timeout")
    ELSE IF raise_for_status(reply) THEN Failure("HTTPError")
    ELSE IF ~DNSARecordResponseModel(reply.body) THEN Failure("ValidationError")
    ELSE IF Len(reply.body.records) = 0 THEN Failure("IndexError")
    ELSE LET rec == reply.body.records[1]
             t   == pyInt(rec.ttl)
         IN  IF t.ok THEN ARecord(rec.content, t.val)
             ELSE Failure("ValueError")

\* a plausible slip: the TTL of the record being replaced is sent back
EditRequestKeepTtl(domain, ip, ttl) ==
    [domain |-> domain, content |-> ip,
     ttl |-> IF provider # <<>> THEN provider[1].ttl ELSE pyStr(ttl)]

\* PorkBun.update_a_record: URL parameter and JSON body of the POST
EditRequest(domain, ip, ttl) ==
    [domain |-> domain, content |-> ip, ttl |-> pyStr(ttl)]

\* the provider's editByNameType: every A record of the name is rewritten
ProviderApply(recs, req) ==
    [i \in 1..Len(recs) |-> DNSARecord(req.content, req.ttl)]

-----------------------------------------------------------------------------
(* ipify.py *)

\* IPifyResponseModel.model_validate_json: field ip is required
IPifyResponseModel(body) == body.has_ip

IP(ip) == [ok |-> TRUE, ip |-> ip, ttl |-> 0, error |-> ""]

\* IPify.get_current_ip, from the reply to its GET
get_current_ip(reply) ==
    IF reply.kind = "timeout" THEN Failure("Timeout")
    ELSE IF raise_for_status(reply) THEN Failure("HTTPError")
    ELSE IF ~IPifyResponseModel(reply.body) THEN Failure("ValidationError")
    ELSE IP(reply.body.ip)

-----------------------------------------------------------------------------
(* The services' answers *)

RECURSIVE SeqsUpTo(_, _)
SeqsUpTo(S, n) ==
    IF n = 0 THEN {<<>>}
    ELSE LET shorter == SeqsUpTo(S, n - 1)
         IN  shorter \cup {Append(s, x) : s \in shorter, x \in S}

RecordPool == {DNSARecord(c, t) : c \in IPs, t \in ProviderTtls}

DnsFaults == {"none", "timeout", "http_error", "api_error"}

IpBodies ==
    {[status |-> "", records |-> <<>>, ip |-> i, has_ip |-> TRUE] : i \in IPs}
    \cup {NoBody}

IpReplies ==
    {TimeoutReply, HttpReply(500, NoBody)} \cup {HttpReply(200, b) : b \in IpBodies}

EditReplies == {TimeoutReply, HttpReply(200, NoBody), HttpReply(400, NoBody)}

\* reply of retrieveByNameType for the records the provider holds
DnsReply(recs, fault) ==
    CASE fault = "timeout"    -> TimeoutReply
      [] fault = "http_error" -> HttpReply(500, NoBody)
      [] fault = "api_error"  ->
            HttpReply(200, [NoBody EXCEPT !.status = "ERROR"])
      [] OTHER ->
            HttpReply(200, [NoBody EXCEPT !.status = "SUCCESS", !.records = recs])

-----------------------------------------------------------------------------
(* concurrent.futures *)

Tasks == {"record_task", "current_task"}

NoResult == Failure("pending")

NewFuture == [state |-> "unsubmitted", result |-> NoResult]

Done(t) == task[t].state = "done"

\* a plausible slip: result() polled without blocking
ResultReadyNoWait(t) == TRUE

\* Future.result() blocks until the future is done
ResultReady(t) == Done(t)

\* a plausible slip: shutdown(wait=False)
ShutdownNoWait == TRUE

\* ThreadPoolExecutor.__exit__: shutdown(wait=True) joins the workers
ShutdownReady == \A t \in Tasks : Done(t)

\* what the task computes from the reply to its request
TaskResult(t) ==
    IF t = "record_task"
    THEN get_a_record(DnsReply(world.records, world.dnsFault))
    ELSE get_current_ip(world.ipReply)

-----------------------------------------------------------------------------
(* State machine of the pass *)

RtIdle == [phase |-> "idle", ttl |-> 0, wire |-> <<>>, parsed |-> 0]

PassInit ==
    /\ args \in [domain : Domains, ttl : ArgTtls]
    /\ world \in [records : SeqsUpTo(RecordPool, MaxRecords),
                  dnsFault : DnsFaults,
                  ipReply : IpReplies]
    /\ provider = world.records
    /\ task = [t \in Tasks |-> NewFuture]
    /\ pc = "submit_record"
    /\ record = NoResult
    /\ current = NoResult
    /\ exc = ""
    /\ exit_code = -1
    /\ sent = [get |-> <<>>, ip |-> <<>>, edit |-> <<>>]
    /\ editReply = TimeoutReply

Init == PassInit /\ rt = RtIdle

\* updater.py:49  record_task = executor.submit(get_a_record, domain=...)
SubmitRecord ==
    /\ pc = "submit_record"
    /\ task' = [task EXCEPT !["record_task"].state = "queued"]
    /\ pc' = "submit_current"
    /\ UNCHANGED <<args, world, provider, record, current, exc, exit_code,
                   sent, editReply, rt>>

\* updater.py:51  current_task = executor.submit(get_current_ip)
SubmitCurrent ==
    /\ pc = "submit_current"
    /\ task' = [task EXCEPT !["current_task"].state = "queued"]
    /\ pc' = "record_result"
    /\ UNCHANGED <<args, world, provider, record, current, exc, exit_code,
                   sent, editReply, rt>>

\* a worker thread takes the work item and sends its HTTP request
TaskStart(t) ==
    /\ task[t].state = "queued"
    /\ task' = [task EXCEPT ![t].state = "running"]
    /\ sent' = IF t = "record_task"
               THEN [sent EXCEPT !.get = Append(@, [domain |-> args.domain])]
               ELSE [sent EXCEPT !.ip = Append(@, [format |-> "json"])]
    /\ UNCHANGED <<args, world, provider, pc, record, current, exc,
                   exit_code, editReply, rt>>

\* the request returns or fails; the future is set to the result or exception
TaskFinish(t) ==
    /\ task[t].state = "running"
    /\ task' = [task EXCEPT ![t] = [state |-> "done", result |-> TaskResult(t)]]
    /\ UNCHANGED <<args, world, provider, pc, record, current, exc,
                   exit_code, sent, editReply, rt>>

\* updater.py:53  record = record_task.result()
AwaitRecord ==
    /\ pc = "record_result"
    /\ ResultReady("record_task")
    /\ IF task["record_task"].result.ok
       THEN /\ record' = task["record_task"].result
            /\ pc' = "current_result"
            /\ exc' = exc
       ELSE /\ exc' = task["record_task"].result.error
            /\ pc' = "shutdown"
            /\ record' = record
    /\ UNCHANGED <<args, world, provider, task, current, exit_code, sent,
                   editReply, rt>>

\* updater.py:54  current = current_task.result()
AwaitCurrent ==
    /\ pc = "current_result"
    /\ ResultReady("current_task")
    /\ IF task["current_task"].result.ok
       THEN /\ current' = task["current_task"].result
            /\ exc' = exc
       ELSE /\ exc' = task["current_task"].result.error
            /\ current' = current
    /\ pc' = "shutdown"
    /\ UNCHANGED <<args, world, provider, task, record, exit_code, sent,
                   editReply, rt>>

\* a plausible slip: the exception is suppressed by the context manager
PropagatesNever == FALSE

\* Executor.__exit__ returns False: an exception raised in the with block
\* is re-raised after the shutdown
Propagates == exc # ""

\* updater.py:48  leaving the with block; an exception raised inside it
\* propagates once the executor has shut down and ends the process
Shutdown ==
    /\ pc = "shutdown"
    /\ ShutdownReady
    /\ IF Propagates
       THEN pc' = "exited" /\ exit_code' = 1
       ELSE pc' = "compare" /\ exit_code' = exit_code
    /\ UNCHANGED <<args, world, provider, task, record, current, exc, sent,
                   editReply, rt>>

\* a plausible slip: the update is issued whenever the record is stale in
\* its IP or in its TTL
NeedsUpdateIpOrTtl == current.ip # record.ip \/ record.ttl # args.ttl

\* a plausible slip: the update is issued unconditionally
NeedsUpdateAlways == TRUE

\* updater.py:60  if current.ip != record.ip
NeedsUpdate == current.ip # record.ip

\* updater.py:60-65 and porkbun.py:119-128: compare, and on a mismatch send
\* the edit request; otherwise the module body ends
Compare ==
    /\ pc = "compare"
    /\ IF NeedsUpdate
       THEN /\ sent' = [sent EXCEPT !.edit =
                   Append(@, EditRequest(args.domain, current.ip, args.ttl))]
            /\ pc' = "update_response"
            /\ exit_code' = exit_code
       ELSE /\ sent' = sent
            /\ pc' = "exited"
            /\ exit_code' = 0
    /\ UNCHANGED <<args, world, provider, task, record, current, exc,
                   editReply, rt>>

\* a plausible slip: a failed update is sent again
UpdateFailedRetry(reply) ==
    /\ pc' = "update_response"
    /\ exc' = exc
    /\ exit_code' = exit_code
    /\ sent' = [sent EXCEPT !.edit = Append(@, sent.edit[1])]

\* porkbun.py:137 raise_for_status raises (or requests.post did); nothing
\* catches it and the interpreter exits with status 1
UpdateFailed(reply) ==
    /\ pc' = "exited"
    /\ exc' = IF reply.kind = "timeout" THEN "Timeout" ELSE "HTTPError"
    /\ exit_code' = 1
    /\ sent' = sent

\* porkbun.py:119-137  the edit request returns or fails
UpdateResponse ==
    /\ pc = "update_response"
    /\ \E reply \in EditReplies :
         /\ editReply' = reply
         /\ IF reply.kind = "timeout" \/ raise_for_status(reply)
            THEN /\ UpdateFailed(reply)
                 \* a request that timed out may or may not have been applied
                 /\ \/ provider' = provider
                    \/ /\ reply.kind = "timeout"
                       /\ provider' = ProviderApply(provider, sent.edit[Len(sent.edit)])
            ELSE /\ pc' = "exited"
                 /\ exc' = exc
                 /\ exit_code' = 0
                 /\ sent' = sent
                 /\ provider' = ProviderApply(provider, sent.edit[Len(sent.edit)])
    /\ UNCHANGED <<args, world, task, record, current, rt>>

Next ==
    \/ SubmitRecord
    \/ SubmitCurrent
    \/ \E t \in Tasks : TaskStart(t)
    \/ \E t \in Tasks : TaskFinish(t)
    \/ AwaitRecord
    \/ AwaitCurrent
    \/ Shutdown
    \/ Compare
    \/ UpdateResponse

Spec == Init /\ [][Next]_vars

\* termination does not depend on the arguments: one invocation
FairInit == Init /\ args = [domain |-> "example.com", ttl |-> DefaultTtl]

\* every request returns or fails (per-request timeout) and runnable threads
\* are scheduled: while some step is enabled, a step is eventually taken
FairSpec == FairInit /\ [][Next]_vars /\ WF_vars(Next)

-----------------------------------------------------------------------------
(* TTL round trip: update_a_record puts a TTL on the wire, get_a_record    *)
(* reads it back from a one-record reply.                                  *)

TtlInit ==
    /\ rt \in {[phase |-> "start", ttl |-> n, wire |-> <<>>, parsed |-> 0] :
                 n \in TtlRange}
    /\ args = [domain |-> "example.com", ttl |-> DefaultTtl]
    /\ world = [records |-> <<>>, dnsFault |-> "none", ipReply |-> TimeoutReply]
    /\ provider = <<>>
    /\ task = [t \in Tasks |-> NewFuture]
    /\ pc = "submit_record"
    /\ record = NoResult
    /\ current = NoResult
    /\ exc = ""
    /\ exit_code = -1
    /\ sent = [get |-> <<>>, ip |-> <<>>, edit |-> <<>>]
    /\ editReply = TimeoutReply

\* porkbun.py:127  "ttl": str(ttl)
RtSerialize ==
    /\ rt.phase = "start"
    /\ rt' = [rt EXCEPT !.phase = "wire",
                        !.wire = EditRequest(args.domain, "1.2.3.4", rt.ttl).ttl]
    /\ UNCHANGED passVars

\* porkbun.py:102-104  ARecord(..., ttl=int(parsed.record.ttl))
RtParse ==
    /\ rt.phase = "wire"
    /\ LET got == get_a_record(DnsReply(<<DNSARecord("1.2.3.4", rt.wire)>>, "none"))
       IN  rt' = [rt EXCEPT !.phase = IF got.ok THEN "parsed" ELSE "rejected",
                            !.parsed = got.ttl]
    /\ UNCHANGED passVars

TtlNext == RtSerialize \/ RtParse

TtlSpec == TtlInit /\ [][TtlNext]_vars

-----------------------------------------------------------------------------
(* Properties *)

Exited == pc = "exited"

ReadsOk == record.ok /\ current.ok

\* the two reads, computed from the services' answers alone
DnsRead == get_a_record(DnsReply(world.records, world.dnsFault))

IpRead == get_current_ip(world.ipReply)

EditFailed == editReply.kind = "timeout" \/ editReply.status_code >= 400

\* the read of the A record fails with a transport, HTTP or schema error
DnsReadFails == world.dnsFault \in {"timeout", "http_error", "api_error"}

\* the IP lookup fails with a transport, HTTP or schema error
IpReadFails ==
    \/ world.ipReply.kind = "timeout"
    \/ world.ipReply.status_code >= 400
    \/ ~world.ipReply.body.has_ip

\* C1: when both reads succeeded and the two IP strings differ, the pass
\* issues exactly one update call, for the invoked domain, with the IP the
\* lookup reported and the configured TTL, whatever TTL the record holds.
C1_OneUpdateOnMismatch ==
    (ReadsOk /\ current.ip # record.ip) =>
        /\ Len(sent.edit) <= 1
        /\ (pc \in {"update_response", "exited"} =>
              /\ Len(sent.edit) = 1
              /\ sent.edit[1].domain = args.domain
              /\ sent.edit[1].content = world.ipReply.body.ip
              /\ sent.edit[1].content = current.ip
              /\ pyInt(sent.edit[1].ttl) = [ok |-> TRUE, val |-> args.ttl])

C1_Witness ==
    /\ Exited
    /\ ReadsOk
    /\ current.ip # record.ip
    /\ record.ttl # args.ttl
    /\ Len(sent.edit) = 1

\* C2: when both reads succeeded and the IP of the lookup equals the IP of
\* the A record (as strings), no update call is issued in the pass.
C2_NoUpdateOnMatch ==
    (ReadsOk /\ current.ip = record.ip) => sent.edit = <<>>

C2_Witness ==
    /\ Exited
    /\ ReadsOk
    /\ current.ip = record.ip
    /\ exit_code = 0

\* C3: when the provider's read answers successfully with zero records or
\* with two or more, the pass fails and no update call is issued.
C3_RecordCountEnforced ==
    (world.dnsFault = "none" /\ Len(world.records) # 1) =>
        /\ sent.edit = <<>>
        /\ (Exited => exit_code # 0 /\ exc # "")

\* C4: when either read fails with a transport, HTTP or schema error, the
\* pass fails and no update call is issued, whatever the other read returned
\* and whichever finished first; an update is issued only after both reads
\* have succeeded.
C4_NoUpdateAfterFailedRead ==
    /\ (sent.edit # <<>> =>
          /\ \A t \in Tasks : Done(t) /\ task[t].result.ok
          /\ ReadsOk)
    /\ ((DnsReadFails \/ IpReadFails) =>
          /\ sent.edit = <<>>
          /\ provider = world.records
          /\ (Exited => exit_code = 1 /\ exc # ""))

C4_Witness ==
    /\ Exited
    /\ IpReadFails
    /\ task["record_task"].result.ok
    /\ task["record_task"].result.ip # ""
    /\ exit_code = 1

\* the result of the pass as the services' answers determine it
EditsAsExpected ==
    IF DnsRead.ok /\ IpRead.ok /\ DnsRead.ip # IpRead.ip
    THEN /\ Len(sent.edit) = 1
         /\ sent.edit[1].domain = args.domain
         /\ sent.edit[1].content = IpRead.ip
         /\ pyInt(sent.edit[1].ttl) = [ok |-> TRUE, val |-> args.ttl]
    ELSE sent.edit = <<>>

ExpectedExit ==
    IF ~DnsRead.ok \/ ~IpRead.ok THEN 1
    ELSE IF DnsRead.ip = IpRead.ip THEN 0
    ELSE IF EditFailed THEN 1 ELSE 0

\* C5: both reads are submitted before either result is awaited, the
\* comparison and the update come only after both tasks have completed, and
\* the outcome of the pass (update and its arguments, success or failure) is
\* determined by the services' answers, not by the interleaving.
C5_JoinThenCompare ==
    /\ (pc \notin {"submit_record", "submit_current"} =>
          \A t \in Tasks : task[t].state # "unsubmitted")
    /\ (pc \notin {"submit_record", "submit_current", "record_result"} =>
          Done("record_task"))
    /\ ((pc \in {"compare", "update_response"} \/ sent.edit # <<>>) =>
          \A t \in Tasks : Done(t))
    /\ (Exited => EditsAsExpected /\ exit_code = ExpectedExit)

\* the lookup has completed while the record read is still in flight and the
\* main thread waits for the record
C5_Witness ==
    /\ pc = "record_result"
    /\ task["record_task"].state = "running"
    /\ Done("current_task")

\* the pass succeeds: both reads succeed, the provider holding exactly one
\* record, and the update, when the IPs differ, succeeds as well
PassSucceeds ==
    /\ DnsRead.ok
    /\ Len(world.records) = 1
    /\ IpRead.ok
    /\ (DnsRead.ip # IpRead.ip => ~EditFailed)

\* C6: the process exits zero exactly when the pass succeeds; a transport,
\* HTTP, schema or validation error in a read or in the update gives a
\* non-zero exit.
C6_ExitZeroIffSuccess ==
    Exited => (exit_code = 0 <=> PassSucceeds)

\* C7: no retry: each of the three requests is issued at most once in a
\* pass, and a failure of any of them ends the pass with the error.
C7_NoRetry ==
    /\ Len(sent.get) <= 1
    /\ Len(sent.ip) <= 1
    /\ Len(sent.edit) <= 1
    /\ (Exited /\ (\E t \in Tasks : Done(t) /\ ~task[t].result.ok) =>
          exit_code = 1 /\ exc # "")
    /\ (Exited /\ sent.edit # <<>> /\ EditFailed =>
          exit_code = 1 /\ exc # "")

C7_Witness ==
    /\ Exited
    /\ Len(sent.get) = 1
    /\ Len(sent.ip) = 1
    /\ Len(sent.edit) = 1
    /\ EditFailed
    /\ exit_code = 1

\* the value a decimal string denotes, digit by digit from the right
RECURSIVE Denotes(_)
Denotes(s) ==
    IF s = <<>> THEN 0
    ELSE IF Head(s) = "-" THEN 0 - Denotes(Tail(s))
    ELSE DigitVal(s[Len(s)]) + 10 * Denotes(SubSeq(s, 1, Len(s) - 1))

\* C8: the TTL round trip: update_a_record puts the decimal string of its
\* integer TTL on the wire and get_a_record turns that string back into the
\* same integer ("300" into 300).
C8_TtlRoundTrip ==
    /\ (rt.phase \in {"wire", "parsed", "rejected"} =>
          /\ \A i \in 1..Len(rt.wire) :
                IsDigit(rt.wire[i]) \/ (i = 1 /\ rt.wire[i] = "-")
          /\ Denotes(rt.wire) = rt.ttl)
    /\ rt.phase # "rejected"
    /\ (rt.phase = "parsed" =>
          /\ rt.parsed = rt.ttl
          /\ (rt.wire = <<"3", "0", "0">> => rt.parsed = 300))

C8_Witness ==
    /\ rt.phase = "parsed"
    /\ rt.wire = <<"3", "0", "0">>
    /\ rt.parsed = 300

\* C9: no cancellation: a submitted read runs until it has completed or
\* failed, the pass does not end before both reads have finished, and, every
\* request returning or failing, the pass ends.
C9_NoCancelAndTerminates ==
    /\ [](Exited => \A t \in Tasks : Done(t))
    /\ [][\A t \in Tasks :
            /\ (task[t].state = "queued" => task'[t].state \in {"queued", "running"})
            /\ (task[t].state = "running" => task'[t].state \in {"running", "done"})
            /\ (Done(t) => task'[t] = task[t])]_vars
    /\ <>Exited

\* the record read has failed, the pass is shutting down with its error, and
\* the lookup is still in flight
C9_Witness ==
    /\ pc = "shutdown"
    /\ exc # ""
    /\ task["current_task"].state = "running"

\* C10: the decision reads the IPs only: with equal IPs and a record TTL
\* other than the configured one there is no write and the provider's record
\* stays as it was; the provider's record changes only in a pass where the
\* IPs differ.
C10_TtlAloneNeverWrites ==
    /\ (ReadsOk /\ current.ip = record.ip /\ record.ttl # args.ttl =>
          /\ pc \in {"shutdown", "compare", "exited"}
          /\ sent.edit = <<>>
          /\ provider = world.records)
    /\ (provider # world.records =>
          ReadsOk /\ current.ip # record.ip /\ Len(sent.edit) = 1)

C10_Witness ==
    /\ Exited
    /\ ReadsOk
    /\ current.ip = record.ip
    /\ record.ttl # args.ttl
    /\ provider = world.records
    /\ exit_code = 0

====
